---- MODULE Spec2Model ----
(***************************************************************************)
(* The auction server of src/server.js as a state machine.                 *)
(*                                                                         *)
(* Node runs every request handler of server.js to completion on one       *)
(* thread: none of the auction handlers awaits, and saveData uses          *)
(* fs.writeFileSync.  Each of them is therefore one atomic action.  The    *)
(* startup and POST /admin/creds await bcrypt.hash: other handlers run     *)
(* while they wait, and each is two steps.                                 *)
(*                                                                         *)
(* Money is counted in thousandths of a currency unit (mills), so that     *)
(* amount.toFixed(2) is a real rounding.  Time is counted in minutes; the  *)
(* ISO strings the code stores denote instants and are compared as such.   *)
(* parseFloat results are <<>> for NaN and <<n>> for the number n; an      *)
(* absent request field is <<>> as well.                                   *)
(***************************************************************************)
EXTENDS Integers, Sequences, FiniteSets

VARIABLES
    now,        \* the wall clock read by new Date()
    auctions,   \* DATA.auctions
    saved,      \* the snapshot last written to data.json
    resp,       \* the request the last step handled and the response it was sent
    DATA,       \* the module variable DATA: null, or the reference to the store
    admin,      \* DATA.admin (before DATA is assigned: data.admin of ensureDataFile)
    authed,     \* req.session.authed of the administrator's session
    creds       \* the passwords of the POST /admin/creds handlers awaiting bcrypt.hash

vars == <<now, auctions, saved, resp, DATA, admin, authed, creds>>

----------------------------------------------------------------------------
(* Bounds of the model *)
MaxTime == 2
MaxAuctions == 2
MaxBids == 3

(* Program constants *)
Cent == 10
DefaultMinIncrement == 1000
DefaultDuration == 60
NoMax == 0

\* parseFloat('Infinity'): a value above every amount, increment and bound of the
\* model, which is all the handlers ask of it (they compare and subtract)
Infinity == 1000000000

NaN == <<>>
Absent == <<>>

\* let DATA = null
Null == "null"
Store == "store"

\* bcrypt.hash(password, 10) and bcrypt.compare(password, hash); a missing hash
\* (passwordHash: null) is <<>>
NoHash == <<>>

Hash(password) == <<"bcrypt", password>>

Compare(password, hash) == hash = Hash(password)

\* initialData().admin, and the password ensureDataFile hashes at first boot
InitialAdmin == [username |-> "admin", passwordHash |-> NoHash]

DefaultPassword == "changeme123"

\* JSON.stringify(DATA) as saveData writes it
Snapshot(adm, as) == [admin |-> adm, auctions |-> as]

\* data.json does not exist
NoFile == Snapshot([username |-> "", passwordHash |-> NoHash], <<>>)

\* The draws of generateId() and of generateId().slice(0, 4) the model makes
LongIds == {"p", "q"}
Suffixes == {"x", "y"}

----------------------------------------------------------------------------
(* Helpers of server.js *)

\* amount.toFixed(2), then parseFloat: the nearest cent, halves away from zero
ToFixed2(x) ==
    IF x >= 0 THEN ((x + (Cent \div 2)) \div Cent) * Cent
    ELSE -(((-x + (Cent \div 2)) \div Cent) * Cent)

\* Variant: the cap is never applied
clampBidIncrement_NoCap(amount, minInc, maxInc) ==
    IF amount < minInc THEN minInc ELSE amount

clampBidIncrement(amount, minInc, maxInc) ==
    IF maxInc # NoMax /\ amount > maxInc THEN maxInc
    ELSE IF amount < minInc THEN minInc
    ELSE amount

\* n is the value new Date() returns inside the helper
hasStarted(startsAt, n) == n >= startsAt

\* Variant: the end instant itself still counts as open
hasEnded_Late(endsAt, n) == n > endsAt

hasEnded(endsAt, n) == n >= endsAt

isActiveAuction(startsAt, endsAt, n) == n >= startsAt /\ n < endsAt

\* x || d after parseFloat / parseInt: NaN and 0 are falsy
OrDefault(x, d) == IF x = NaN THEN d ELSE IF x[1] = 0 THEN d ELSE x[1]

\* slugify(s, {lower: true, strict: true}) on a string of words
Lower(w) == IF w = "A" THEN "a" ELSE w

slugify(s) == [i \in DOMAIN s |-> Lower(s[i])]

\* DATA.auctions.find(a => a.slug === slug): the first match, 0 when none
FindBySlug(slug) ==
    IF \E i \in DOMAIN auctions : auctions[i].slug = slug
    THEN CHOOSE i \in DOMAIN auctions :
            /\ auctions[i].slug = slug
            /\ \A j \in 1..(i - 1) : auctions[j].slug # slug
    ELSE 0

\* DATA.auctions.find(a => a.id === id)
FindById(id) ==
    IF \E i \in DOMAIN auctions : auctions[i].id = id
    THEN CHOOSE i \in DOMAIN auctions :
            /\ auctions[i].id = id
            /\ \A j \in 1..(i - 1) : auctions[j].id # id
    ELSE 0

UsedIds == {auctions[i].id : i \in DOMAIN auctions}

\* A 64-bit draw of generateId() repeats no value that is in the store
FreshId(id) == id \notin UsedIds

FreshSlugId(r16) == \A i \in DOMAIN auctions : auctions[i].slug # <<"auction", r16>>

\* What a step leaves in resp: the route, the error sent ("" when none), and for a
\* bid the slug and the parsed amount of the request
Response(op, error, slug, amount) ==
    [op |-> op, error |-> error, slug |-> slug, amount |-> amount]

AdminResponse(op, error) == Response(op, error, <<>>, NaN)

----------------------------------------------------------------------------
\* The frame of the handlers that touch neither the credentials nor the session
server == <<DATA, admin, authed, creds>>

\* Reading DATA.auctions or DATA.admin while DATA is null throws; Express
\* answers 500
TypeError == "TypeError"

\* The answer of Express when saveData throws out of a handler
WriteFailed == "Internal Server Error"

\* The module has been evaluated on a machine without data.json: DATA is null,
\* ensureDataFile awaits bcrypt.hash (server.js:81), the server listens, and no
\* session exists
Init ==
    /\ now = 0
    /\ auctions = <<>>
    /\ saved = NoFile
    /\ resp = AdminResponse("none", "")
    /\ DATA = Null
    /\ admin = InitialAdmin
    /\ authed = FALSE
    /\ creds = {}

\* bcrypt.hash of ensureDataFile resolves: the default hash is stored, the file
\* written, and the then-callback assigns DATA
Startup ==
    /\ DATA = Null
    /\ admin' = [admin EXCEPT !.passwordHash = Hash(DefaultPassword)]
    /\ saved' = Snapshot(admin', auctions)
    /\ DATA' = Store
    /\ resp' = AdminResponse("startup", "")
    /\ UNCHANGED <<now, auctions, authed, creds>>

\* Time passes between two requests
Tick ==
    /\ now < MaxTime
    /\ now' = now + 1
    /\ resp' = AdminResponse("none", "")
    /\ UNCHANGED <<auctions, saved, server>>

\* POST /admin/login.  The handler reads DATA.admin.username and passes
\* DATA.admin.passwordHash to bcrypt.compare in one synchronous run; what follows
\* the await touches the session only.
Login(username, password) ==
    /\ UNCHANGED <<now, auctions, saved, DATA, admin, creds>>
    /\ IF DATA = Null
       THEN /\ resp' = AdminResponse("login", TypeError)
            /\ UNCHANGED authed
       ELSE IF username # admin.username \/ ~Compare(password, admin.passwordHash)
       THEN /\ resp' = AdminResponse("login", "Invalid credentials")
            /\ UNCHANGED authed
       ELSE /\ resp' = AdminResponse("login", "")
            /\ authed' = TRUE

\* The verdict of the checks of POST /:slug/bid on auction a; "" accepts.
\* t1 and t2 are the clock values hasStarted and hasEnded read.
BidError(a, amount, t1, t2) ==
    IF ~hasStarted(a.startsAt, t1) THEN "Auction has not started yet."
    ELSE IF hasEnded(a.endsAt, t2) THEN "Auction has ended."
    ELSE IF amount = NaN THEN "Bid must be greater than current bid."
    ELSE IF amount[1] <= a.currentBid THEN "Bid must be greater than current bid."
    ELSE IF amount[1] - a.currentBid
              # clampBidIncrement(amount[1] - a.currentBid, a.minIncrement, a.maxIncrement)
         THEN "Bid increment must be between min and max."
    ELSE ""

\* Variant: the bid is recorded but currentBid is not written
Accepted_NoWrite(a, amount) ==
    [a EXCEPT !.bids = Append(a.bids, ToFixed2(amount[1]))]

\* Variant: the bid is put in front of the earlier ones
Accepted_Prepend(a, amount) ==
    [a EXCEPT !.currentBid = ToFixed2(amount[1]),
              !.bids = <<ToFixed2(amount[1])>> \o a.bids]

\* Variant: an accepted bid keeps the auction open a minute longer
Accepted_Extended(a, amount) ==
    [a EXCEPT !.currentBid = ToFixed2(amount[1]),
              !.bids = Append(a.bids, ToFixed2(amount[1])),
              !.endsAt = a.endsAt + 1]

\* The auction after an accepted bid
Accepted(a, amount) ==
    [a EXCEPT !.currentBid = ToFixed2(amount[1]),
              !.bids = Append(a.bids, ToFixed2(amount[1]))]

\* Variant: a failed write takes the bid back
AfterWrite_RolledBack(as, i, amount, writeOk) ==
    IF writeOk THEN [as EXCEPT ![i] = Accepted(as[i], amount)] ELSE as

\* DATA.auctions when the handler of an accepted bid has left: the auction was
\* changed before saveData was called, whether or not the write succeeds
AfterWrite(as, i, amount, writeOk) ==
    [as EXCEPT ![i] = Accepted(as[i], amount)]

\* Variant: currentBid is assigned before the increment check
PlaceBid_Eager(slug, amount, t1, t2, writeOk) ==
    LET i == FindBySlug(slug) IN
    /\ now <= t1 /\ t1 <= t2
    /\ now' = t2
    /\ UNCHANGED server
    /\ IF DATA = Null
       THEN /\ resp' = Response("bid", TypeError, slug, amount)
            /\ UNCHANGED <<auctions, saved>>
       ELSE IF i = 0
       THEN /\ resp' = Response("bid", "Auction not found", slug, amount)
            /\ UNCHANGED <<auctions, saved>>
       ELSE LET err == BidError(auctions[i], amount, t1, t2) IN
            IF err = ""
            THEN /\ Len(auctions[i].bids) < MaxBids
                 /\ auctions' = AfterWrite(auctions, i, amount, writeOk)
                 /\ IF writeOk
                    THEN /\ saved' = Snapshot(admin, auctions')
                         /\ resp' = Response("bid", "", slug, amount)
                    ELSE /\ UNCHANGED saved
                         /\ resp' = Response("bid", WriteFailed, slug, amount)
            ELSE IF err = "Bid increment must be between min and max."
            THEN /\ auctions' = [auctions EXCEPT ![i].currentBid = ToFixed2(amount[1])]
                 /\ resp' = Response("bid", err, slug, amount)
                 /\ UNCHANGED saved
            ELSE /\ resp' = Response("bid", err, slug, amount)
                 /\ UNCHANGED <<auctions, saved>>

\* POST /:slug/bid.  writeOk: the fs.writeFileSync of saveData returns; when it
\* throws, the handler is left at server.js:204 and data.json is taken to stay
\* as it was.
PlaceBid(slug, amount, t1, t2, writeOk) ==
    LET i == FindBySlug(slug) IN
    /\ now <= t1 /\ t1 <= t2
    /\ now' = t2
    /\ UNCHANGED server
    /\ IF DATA = Null
       THEN /\ resp' = Response("bid", TypeError, slug, amount)
            /\ UNCHANGED <<auctions, saved>>
       ELSE IF i = 0
       THEN /\ resp' = Response("bid", "Auction not found", slug, amount)
            /\ UNCHANGED <<auctions, saved>>
       ELSE LET err == BidError(auctions[i], amount, t1, t2) IN
            IF err = ""
            THEN /\ Len(auctions[i].bids) < MaxBids
                 /\ auctions' = AfterWrite(auctions, i, amount, writeOk)
                 /\ IF writeOk
                    THEN /\ saved' = Snapshot(admin, auctions')
                         /\ resp' = Response("bid", "", slug, amount)
                    ELSE /\ UNCHANGED saved
                         /\ resp' = Response("bid", WriteFailed, slug, amount)
            ELSE /\ resp' = Response("bid", err, slug, amount)
                 /\ UNCHANGED <<auctions, saved>>

\* What GET /:slug/status answers: the error ("" when none) and the three
\* booleans of the body
StatusResponse(error, slug, active, started, ended) ==
    [op |-> "status", error |-> error, slug |-> slug, amount |-> NaN,
     active |-> active, hasStarted |-> started, hasEnded |-> ended]

\* GET /:slug/status.  t1, t2 and t3 are the clock values that isActiveAuction,
\* hasStarted and hasEnded read, in the order the object literal evaluates them.
Status(slug, t1, t2, t3) ==
    LET i == FindBySlug(slug) IN
    /\ now <= t1 /\ t1 <= t2 /\ t2 <= t3
    /\ now' = t3
    /\ UNCHANGED <<auctions, saved, server>>
    /\ IF DATA = Null
       THEN resp' = StatusResponse(TypeError, slug, FALSE, FALSE, FALSE)
       ELSE IF i = 0
       THEN resp' = StatusResponse("Auction not found", slug, FALSE, FALSE, FALSE)
       ELSE resp' = StatusResponse("", slug,
                        isActiveAuction(auctions[i].startsAt, auctions[i].endsAt, t1),
                        hasStarted(auctions[i].startsAt, t2),
                        hasEnded(auctions[i].endsAt, t3))

\* authRequired: a request without an authenticated session is redirected to
\* /admin/login and the route is not entered
Redirected(op) ==
    /\ resp' = AdminResponse(op, "redirect")
    /\ UNCHANGED <<now, auctions, saved, server>>

\* An admin route dereferences DATA while it is null
Thrown(op) ==
    /\ resp' = AdminResponse(op, TypeError)
    /\ UNCHANGED <<now, auctions, saved, server>>

\* The auction object POST /admin/auction builds
NewAuction(id, slug, startsAt, endsAt, startingBid, minIncrement, maxIncrement) ==
    [id |-> id,
     slug |-> slug,
     startsAt |-> startsAt,
     endsAt |-> endsAt,
     startingBid |-> startingBid,
     minIncrement |-> minIncrement,
     maxIncrement |-> IF maxIncrement > 0 THEN maxIncrement ELSE NoMax,
     currentBid |-> startingBid,
     bids |-> <<>>]

\* The slug of a new auction: the requested slug or else the title, slugified;
\* 'auction-' + generateId() when that is empty; one random suffix when taken.
\* r16 and r4 are the draws of generateId() and generateId().slice(0, 4).
NewSlug(title, slugIn, r16, r4) ==
    LET s0 == slugify(IF slugIn # <<>> THEN slugIn ELSE title)
        s1 == IF s0 = <<>> THEN <<"auction", r16>> ELSE s0
    IN  IF \E i \in DOMAIN auctions : auctions[i].slug = s1
        THEN Append(s1, r4)
        ELSE s1

\* new Date(startsAt).getTime() + (parseInt(durationMinutes, 10) || 60) * 60000
EndOf(startsAt, durationMinutes) ==
    startsAt + OrDefault(durationMinutes, DefaultDuration)

\* utcISOFromLocal throws RangeError on a missing or unparsable date
InvalidDate == <<"Invalid", "Date">>

IsDate(d) == Len(d) = 1

\* POST /admin/auction (behind authRequired); id, r16 and r4 are the draws of
\* generateId() for the id, for an empty slug and for the suffix of a taken slug
Create(title, slugIn, startsAtLocal, durationMinutes, startingBid, minIncrement, maxIncrement, id, r16, r4) ==
    IF ~authed THEN Redirected("create")
    ELSE IF ~IsDate(startsAtLocal)
    THEN /\ resp' = AdminResponse("create", "RangeError")
         /\ UNCHANGED <<now, auctions, saved, server>>
    ELSE IF DATA = Null THEN Thrown("create")
    ELSE /\ UNCHANGED <<now, server>>
         /\ auctions' = Append(auctions,
                NewAuction(id,
                           NewSlug(title, slugIn, r16, r4),
                           startsAtLocal[1],
                           EndOf(startsAtLocal[1], durationMinutes),
                           OrDefault(startingBid, 0),
                           OrDefault(minIncrement, DefaultMinIncrement),
                           OrDefault(maxIncrement, 0)))
         /\ saved' = Snapshot(admin, auctions')
         /\ resp' = AdminResponse("create", "")

\* Variant: currentBid follows startingBid whether or not there are bids
UpdateStartingBid_Always(a, startingBid) ==
    IF startingBid = Absent THEN a
    ELSE [a EXCEPT !.startingBid = startingBid[1], !.currentBid = startingBid[1]]

\* The startingBid part of the update handler
UpdateStartingBid(a, startingBid) ==
    IF startingBid = Absent THEN a
    ELSE IF Len(a.bids) = 0
         THEN [a EXCEPT !.startingBid = startingBid[1], !.currentBid = startingBid[1]]
         ELSE [a EXCEPT !.startingBid = startingBid[1]]

\* The time window part of the update handler
UpdateWindow(a, startsAtLocal, durationMinutes) ==
    IF startsAtLocal # Absent /\ durationMinutes # Absent
    THEN [a EXCEPT !.startsAt = startsAtLocal[1],
                   !.endsAt = EndOf(startsAtLocal[1], durationMinutes)]
    ELSE a

\* The minIncrement part of the update handler
UpdateMinIncrement(a, minIncrement) ==
    IF minIncrement # Absent /\ minIncrement[1] > 0
    THEN [a EXCEPT !.minIncrement = minIncrement[1]]
    ELSE a

\* The maxIncrement part of the update handler; a field that is present but
\* does not parse to a number behaves as 0 does
UpdateMaxIncrement(a, maxIncrement) ==
    IF maxIncrement # Absent
    THEN [a EXCEPT !.maxIncrement = IF maxIncrement[1] > 0 THEN maxIncrement[1] ELSE NoMax]
    ELSE a

\* POST /admin/auction/:id/update (behind authRequired).  A RangeError leaves the
\* route after title and description, which the model does not keep, and before
\* any field it keeps; nothing is saved.
Update(id, startsAtLocal, durationMinutes, startingBid, minIncrement, maxIncrement) ==
    LET i == FindById(id) IN
    IF ~authed THEN Redirected("update")
    ELSE IF DATA = Null THEN Thrown("update")
    ELSE IF i = 0
    THEN /\ resp' = AdminResponse("update", "Not found")
         /\ UNCHANGED <<now, auctions, saved, server>>
    ELSE IF startsAtLocal = InvalidDate /\ durationMinutes # Absent
    THEN /\ resp' = AdminResponse("update", "RangeError")
         /\ UNCHANGED <<now, auctions, saved, server>>
    ELSE /\ UNCHANGED <<now, server>>
         /\ auctions' = [auctions EXCEPT ![i] =
                UpdateMaxIncrement(
                  UpdateMinIncrement(
                    UpdateStartingBid(
                      UpdateWindow(auctions[i], startsAtLocal, durationMinutes),
                      startingBid),
                    minIncrement),
                  maxIncrement)]
         /\ saved' = Snapshot(admin, auctions')
         /\ resp' = AdminResponse("update", "")

\* POST /admin/auction/:id/delete (behind authRequired)
Delete(id) ==
    IF ~authed THEN Redirected("delete")
    ELSE IF DATA = Null THEN Thrown("delete")
    ELSE /\ auctions' = SelectSeq(auctions, LAMBDA a : a.id # id)
         /\ saved' = Snapshot(admin, auctions')
         /\ resp' = AdminResponse("delete", "")
         /\ UNCHANGED <<now, server>>

\* POST /admin/creds up to its await: the username is assigned, then the handler
\* waits for bcrypt.hash(password, 10)
CredsBegin(username, password) ==
    IF ~authed THEN Redirected("creds")
    ELSE IF username = "" \/ password = ""
    THEN /\ resp' = AdminResponse("creds", "Username and password required")
         /\ UNCHANGED <<now, auctions, saved, server>>
    ELSE IF DATA = Null THEN Thrown("creds")
    ELSE /\ admin' = [admin EXCEPT !.username = username]
         /\ creds' = creds \cup {password}
         /\ resp' = AdminResponse("creds", "pending")
         /\ UNCHANGED <<now, auctions, saved, DATA, authed>>

\* POST /admin/creds from its await on: the hash is assigned and the store saved
CredsEnd(password) ==
    /\ password \in creds
    /\ creds' = creds \ {password}
    /\ admin' = [admin EXCEPT !.passwordHash = Hash(password)]
    /\ saved' = Snapshot(admin', auctions)
    /\ resp' = AdminResponse("creds", "")
    /\ UNCHANGED <<now, auctions, DATA, authed>>

----------------------------------------------------------------------------
(* Requests of the engine specification: two auctions, coarse amounts *)
StartTimes == {<<1>>}
Durations == {<<-1>>, <<1>>}
StartingBids == {<<50000>>, <<60000>>}
MinIncrements == {<<1000>>}
MaxIncrements == {<<0>>, <<100000>>}
Amounts == {NaN, <<60000>>, <<200000>>}
Slugs == {<<"a">>}

Patch(startsAtLocal, durationMinutes, startingBid, minIncrement, maxIncrement) ==
    [startsAtLocal |-> startsAtLocal, durationMinutes |-> durationMinutes,
     startingBid |-> startingBid, minIncrement |-> minIncrement,
     maxIncrement |-> maxIncrement]

\* The update forms sent: one field each, and the time window with its two fields
Patches ==
    {Patch(s, d, Absent, Absent, Absent) :
        s \in StartTimes \cup {InvalidDate}, d \in Durations \cup {Absent}}
    \cup {Patch(Absent, Absent, b, Absent, Absent) : b \in StartingBids}
    \cup {Patch(Absent, Absent, Absent, m, Absent) : m \in MinIncrements \cup {<<0>>}}
    \cup {Patch(Absent, Absent, Absent, Absent, m) : m \in MaxIncrements}

\* The second clock read of a handler comes no earlier than the first
Later(t) == {u \in {t, t + 1} : u <= MaxTime}

Next ==
    \/ Startup
    \/ Login(InitialAdmin.username, DefaultPassword)
    \/ Tick
    \/ \E slug \in Slugs \cup {<<"a", "x">>}, amount \in Amounts, t2 \in Later(now) :
          PlaceBid(slug, amount, now, t2, TRUE)
    \/ /\ Len(auctions) < MaxAuctions
       /\ \E slugIn \in Slugs, startsAtLocal \in StartTimes \cup {InvalidDate},
             durationMinutes \in Durations, startingBid \in StartingBids,
             minIncrement \in MinIncrements, maxIncrement \in MaxIncrements,
             id \in 1..MaxAuctions :
             FreshId(id) /\
             Create(<<>>, slugIn, startsAtLocal, durationMinutes, startingBid,
                    minIncrement, maxIncrement, id, "p", "x")
    \/ \E id \in 1..MaxAuctions, p \in Patches :
          Update(id, p.startsAtLocal, p.durationMinutes, p.startingBid,
                 p.minIncrement, p.maxIncrement)
    \/ \E id \in 1..MaxAuctions : Delete(id)

Spec == Init /\ [][Next]_vars

----------------------------------------------------------------------------
(* Requests of the bidding specification: one auction, amounts and increments
   down to the mill, the default duration *)
MaxBidAuctions == 1

FineDurations == {<<0>>, <<1>>}
FineStartingBids == {<<50000>>, <<60001>>}
FineMinIncrements == {<<1000>>, <<3>>}
FineAmounts == {NaN, <<60000>>, <<60004>>, <<60500>>, <<160000>>, <<200000>>}

FinePatches ==
    {Patch(s, d, Absent, Absent, Absent) : s \in StartTimes, d \in FineDurations}
    \cup {Patch(Absent, Absent, b, Absent, Absent) : b \in FineStartingBids}
    \cup {Patch(Absent, Absent, Absent, m, Absent) : m \in FineMinIncrements}
    \cup {Patch(Absent, Absent, Absent, Absent, m) : m \in MaxIncrements}

NextBid ==
    \/ Startup
    \/ Login(InitialAdmin.username, DefaultPassword)
    \/ Tick
    \/ \E slug \in Slugs, amount \in FineAmounts, t2 \in Later(now) :
          PlaceBid(slug, amount, now, t2, TRUE)
    \/ /\ Len(auctions) < MaxBidAuctions
       /\ \E slugIn \in Slugs, startsAtLocal \in StartTimes,
             durationMinutes \in FineDurations, startingBid \in FineStartingBids,
             minIncrement \in FineMinIncrements, maxIncrement \in MaxIncrements,
             id \in 1..MaxBidAuctions :
             FreshId(id) /\
             Create(<<>>, slugIn, startsAtLocal, durationMinutes, startingBid,
                    minIncrement, maxIncrement, id, "p", "x")
    \/ \E id \in 1..MaxBidAuctions, p \in FinePatches :
          Update(id, p.startsAtLocal, p.durationMinutes, p.startingBid,
                 p.minIncrement, p.maxIncrement)
    \/ \E id \in 1..MaxBidAuctions : Delete(id)

SpecBid == Init /\ [][NextBid]_vars

----------------------------------------------------------------------------
MaxSlugAuctions == 3

(* Requests of the slug specification: creations that differ in title and slug
   only, and deletions *)
Titles == {<<>>, <<"A">>}
SlugInputs == {<<>>, <<"a">>, <<"a", "x">>}

NextSlug ==
    \/ Startup
    \/ Login(InitialAdmin.username, DefaultPassword)
    \/ /\ Len(auctions) < MaxSlugAuctions
       /\ \E title \in Titles, slugIn \in SlugInputs, id \in 1..MaxSlugAuctions,
             r16 \in LongIds, r4 \in Suffixes :
             FreshId(id) /\ FreshSlugId(r16) /\
             Create(title, slugIn, <<1>>, <<1>>, <<50000>>, <<1000>>, <<0>>, id, r16, r4)
    \/ \E id \in 1..MaxSlugAuctions : Delete(id)

SpecSlug == Init /\ [][NextSlug]_vars

----------------------------------------------------------------------------
(* Requests of the store specification: several auctions with one window and
   one minimum increment, so that a third auction stays within reach *)
StorePatches ==
    {Patch(Absent, Absent, b, Absent, Absent) : b \in StartingBids}
    \cup {Patch(Absent, Absent, Absent, m, Absent) : m \in MinIncrements}

NextStore ==
    \/ Startup
    \/ Login(InitialAdmin.username, DefaultPassword)
    \/ Tick
    \/ \E slug \in Slugs \cup {<<"a", "x">>}, amount \in Amounts, t2 \in Later(now) :
          PlaceBid(slug, amount, now, t2, TRUE)
    \/ /\ Len(auctions) < MaxAuctions
       /\ \E slugIn \in Slugs, startingBid \in StartingBids,
             maxIncrement \in MaxIncrements, id \in 1..MaxAuctions :
             FreshId(id) /\
             Create(<<>>, slugIn, <<1>>, <<1>>, startingBid, <<1000>>, maxIncrement, id, "p", "x")
    \/ \E id \in 1..MaxAuctions, p \in StorePatches :
          Update(id, p.startsAtLocal, p.durationMinutes, p.startingBid,
                 p.minIncrement, p.maxIncrement)
    \/ \E id \in 1..MaxAuctions : Delete(id)

SpecStore == Init /\ [][NextStore]_vars

----------------------------------------------------------------------------
(* Requests of the lifecycle specification: several auctions whose windows the
   administrator moves, bids, and the status poll *)
WindowStarts == {<<1>>, <<3>>}

WindowPatches == {Patch(s, <<1>>, Absent, Absent, Absent) : s \in WindowStarts}

NextWindow ==
    \/ Startup
    \/ Login(InitialAdmin.username, DefaultPassword)
    \/ Tick
    \/ \E slug \in Slugs \cup {<<"a", "x">>}, t2 \in Later(now) :
          PlaceBid(slug, <<60000>>, now, t2, TRUE)
    \/ \E slug \in Slugs \cup {<<"a", "x">>}, t1 \in Later(now) :
          \E t2 \in Later(t1) : \E t3 \in Later(t2) : Status(slug, t1, t2, t3)
    \/ /\ Len(auctions) < MaxAuctions
       /\ \E slugIn \in Slugs, id \in 1..MaxAuctions :
             FreshId(id) /\
             Create(<<>>, slugIn, <<1>>, <<1>>, <<50000>>, <<1000>>, <<0>>, id, "p", "x")
    \/ \E id \in 1..MaxAuctions, p \in WindowPatches :
          Update(id, p.startsAtLocal, p.durationMinutes, p.startingBid,
                 p.minIncrement, p.maxIncrement)
    \/ \E id \in 1..MaxAuctions : Delete(id)

SpecWindow == Init /\ [][NextWindow]_vars

----------------------------------------------------------------------------
(* Requests of the edge specification: one auction, form values at the edge of
   what parseFloat lets through, and bids whose write to data.json fails *)
EdgeMinIncrements == {NaN, <<-5000>>}
EdgeMaxIncrements == {<<0>>, <<500>>}
EdgeAmounts == {NaN, <<60000>>, <<70000>>, <<Infinity>>}

EdgePatches ==
    {Patch(Absent, Absent, Absent, m, Absent) : m \in {<<0>>, <<-5000>>}}
    \cup {Patch(Absent, Absent, Absent, Absent, m) : m \in EdgeMaxIncrements}

NextEdge ==
    \/ Startup
    \/ Login(InitialAdmin.username, DefaultPassword)
    \/ Tick
    \/ \E slug \in Slugs, amount \in EdgeAmounts, t2 \in Later(now), writeOk \in BOOLEAN :
          PlaceBid(slug, amount, now, t2, writeOk)
    \/ /\ Len(auctions) < MaxBidAuctions
       /\ \E slugIn \in Slugs, minIncrement \in EdgeMinIncrements,
             maxIncrement \in EdgeMaxIncrements, id \in 1..MaxBidAuctions :
             FreshId(id) /\
             Create(<<>>, slugIn, <<1>>, <<1>>, <<50000>>, minIncrement, maxIncrement, id, "p", "x")
    \/ \E id \in 1..MaxBidAuctions, p \in EdgePatches :
          Update(id, p.startsAtLocal, p.durationMinutes, p.startingBid,
                 p.minIncrement, p.maxIncrement)
    \/ \E id \in 1..MaxBidAuctions : Delete(id)

SpecEdge == Init /\ [][NextEdge]_vars

----------------------------------------------------------------------------
MaxRotations == 1

(* Requests of the administration specification: requests from the moment the
   server listens, logins with old and new credentials, and rotations of the
   credentials, of which MaxRotations wait for their hash at a time *)
Rotations == {<<"root", "s3cret">>, <<"admin", "changeme123">>, <<"", "s3cret">>}
Usernames == {"admin", "root"}
Passwords == {"changeme123", "s3cret"}

NextAdmin ==
    \/ Startup
    \/ \E username \in Usernames, password \in Passwords : Login(username, password)
    \/ Tick
    \/ \E slug \in Slugs, t2 \in Later(now) : PlaceBid(slug, <<60000>>, now, t2, TRUE)
    \/ \E slug \in Slugs : Status(slug, now, now, now)
    \/ /\ Len(auctions) < MaxBidAuctions
       /\ \E slugIn \in Slugs, id \in 1..MaxBidAuctions :
             FreshId(id) /\
             Create(<<>>, slugIn, <<1>>, <<1>>, <<50000>>, <<1000>>, <<0>>, id, "p", "x")
    \/ \E id \in 1..MaxBidAuctions :
          Update(id, Absent, Absent, <<60000>>, Absent, Absent)
    \/ \E id \in 1..MaxBidAuctions : Delete(id)
    \/ /\ Cardinality(creds) < MaxRotations
       /\ \E r \in Rotations : CredsBegin(r[1], r[2])
    \/ \E password \in creds : CredsEnd(password)

SpecAdmin == Init /\ [][NextAdmin]_vars

----------------------------------------------------------------------------
(* Vocabulary of the properties *)

Has(as, id) == \E i \in DOMAIN as : as[i].id = id

Get(as, id) == as[CHOOSE i \in DOMAIN as : as[i].id = id]

Last(q) == q[Len(q)]

InWindow(a, n) == a.startsAt <= n /\ n < a.endsAt

InBounds(a, inc) ==
    /\ inc >= a.minIncrement
    /\ a.maxIncrement = NoMax \/ inc <= a.maxIncrement

\* The lifecycle state of auction a at instant n
Lifecycle(a, n) ==
    IF n < a.startsAt THEN "Pending"
    ELSE IF n < a.endsAt THEN "Active"
    ELSE "Ended"

Rank(state) == IF state = "Pending" THEN 0 ELSE IF state = "Active" THEN 1 ELSE 2

\* The step handles a bid request
BidStep == resp'.op = "bid"

\* The auction a bid of the step looks up, before the step; 0 when none
Target == FindBySlug(resp'.slug)

----------------------------------------------------------------------------
\* C1: a bid request changes an auction only if startsAt <= now < endsAt holds
\* for the auction's current window when the request is checked, and a bid
\* checked outside the window is never accepted.
C1_BidOnlyInWindow ==
    [][BidStep =>
         /\ auctions' # auctions =>
              /\ Target # 0
              /\ InWindow(auctions[Target], now')
              /\ \A i \in DOMAIN auctions : i # Target => auctions'[i] = auctions[i]
         /\ (Target # 0 /\ ~InWindow(auctions[Target], now')) =>
              /\ resp'.error # ""
              /\ auctions' = auctions]_vars

\* An accepted bid stands on an auction that is open now
C1_Witness ==
    /\ resp.op = "bid" /\ resp.error = ""
    /\ \E i \in DOMAIN auctions :
          /\ auctions[i].slug = resp.slug
          /\ auctions[i].bids # <<>>
          /\ InWindow(auctions[i], now)

\* The request of a bid step is a number above currentBid, and the auction it
\* looks up is in its window for the whole of the handling
C2_Case ==
    /\ BidStep
    /\ Target # 0
    /\ auctions[Target].startsAt <= now
    /\ now' < auctions[Target].endsAt
    /\ resp'.amount # NaN
    /\ resp'.amount[1] > auctions[Target].currentBid

\* C2 as stated: in that case the bid is accepted iff the increment is within
\* [minIncrement, maxIncrement], and the new currentBid is the proposed amount.
C2_AcceptedAmountIsProposed ==
    [][C2_Case =>
         /\ resp'.error = ""
              <=> InBounds(auctions[Target], resp'.amount[1] - auctions[Target].currentBid)
         /\ resp'.error = "" =>
              auctions'[Target].currentBid = resp'.amount[1]]_vars

\* C2 amended: accepted iff the increment is within bounds, and the new
\* currentBid is the proposed amount rounded to the nearest cent.
C2_AcceptedAmountIsRounded ==
    [][C2_Case =>
         /\ resp'.error = ""
              <=> InBounds(auctions[Target], resp'.amount[1] - auctions[Target].currentBid)
         /\ resp'.error = "" =>
              LET c == auctions'[Target].currentBid
                  d == c - resp'.amount[1]
              IN  /\ c % Cent = 0
                  /\ 2 * d <= Cent /\ 2 * d > -Cent]_vars

\* The scenario of the claim: 50 to start, increments 1 to 100, bids 60 and 160
C2_Witness ==
    /\ resp.op = "bid" /\ resp.error = "" /\ resp.amount = <<160000>>
    /\ \E i \in DOMAIN auctions :
          /\ auctions[i].startingBid = 50000
          /\ auctions[i].minIncrement = 1000
          /\ auctions[i].maxIncrement = 100000
          /\ auctions[i].bids = <<60000, 160000>>
          /\ auctions[i].currentBid = 160000

\* C3: every accepted bid exceeds the previously accepted bid by an increment
\* within the auction's bounds, and no two accepted bids were validated against
\* the same currentBid (the bid before the last one left a different value).
C3_SerialBids ==
    [][(BidStep /\ resp'.error = "" /\ Target # 0 /\ auctions[Target].bids # <<>>) =>
         LET a == auctions[Target]
             b == auctions'[Target]
             n == Len(a.bids)
         IN  /\ InBounds(a, Last(b.bids) - Last(a.bids))
             /\ n >= 2 => a.bids[n] # a.bids[n - 1]]_vars

\* C4: for every auction, currentBid = startingBid iff bids is empty.
C4_StartingBidIffNoBids ==
    \A i \in DOMAIN auctions :
        (auctions[i].currentBid = auctions[i].startingBid) <=> (auctions[i].bids = <<>>)

\* C5: for every auction with bids, currentBid is the amount of the last bid.
C5_CurrentBidIsLastBid ==
    \A i \in DOMAIN auctions :
        auctions[i].bids # <<>> => auctions[i].currentBid = Last(auctions[i].bids)

\* An update has set startingBid on an auction that already had a bid
C5_Witness ==
    /\ resp.op = "update"
    /\ \E i \in DOMAIN auctions :
          /\ auctions[i].bids # <<>>
          /\ auctions[i].startingBid >= auctions[i].bids[1]

\* C6: every pair of consecutive bids differs by at least minIncrement and, when
\* maxIncrement is set, by at most maxIncrement, of the auction as it is now.
C6_IncrementsWithinBounds ==
    \A i \in DOMAIN auctions :
        \A k \in 1..(Len(auctions[i].bids) - 1) :
            InBounds(auctions[i], auctions[i].bids[k + 1] - auctions[i].bids[k])

\* C7: no two auctions have the same slug after any create or delete, and a
\* create leaves every existing auction in place.
C7_SlugsUnique ==
    [][/\ \A i, j \in DOMAIN auctions' :
             i # j => auctions'[i].slug # auctions'[j].slug
       /\ resp'.op = "create" =>
             \A i \in DOMAIN auctions :
                 i \in DOMAIN auctions' /\ auctions'[i] = auctions[i]]_vars

\* C8: every auction has startsAt < endsAt.
C8_WindowNotEmpty ==
    \A i \in DOMAIN auctions : auctions[i].startsAt < auctions[i].endsAt

\* C9: a rejected bid leaves every auction as it was and writes no snapshot.
C9_RejectedBidChangesNothing ==
    [][(BidStep /\ resp'.error # "") =>
         /\ auctions' = auctions
         /\ saved' = saved]_vars

\* A bid on an ended auction was rejected; currentBid is the last accepted bid
C9_Witness ==
    /\ resp.op = "bid" /\ resp.error = "Auction has ended."
    /\ \E i \in DOMAIN auctions :
          /\ auctions[i].slug = resp.slug
          /\ now >= auctions[i].endsAt
          /\ auctions[i].bids # <<>>
          /\ auctions[i].currentBid = Last(auctions[i].bids)
          /\ resp.amount # NaN
          /\ resp.amount[1] > auctions[i].currentBid

\* C10 as stated: across every step, the currentBid of an auction that exists
\* before and after it does not decrease.
C10_CurrentBidNeverDecreases ==
    [][\A id \in UsedIds :
          Has(auctions', id) =>
              Get(auctions', id).currentBid >= Get(auctions, id).currentBid]_vars

\* C10 amended: currentBid decreases only while bids is empty, and then only by
\* an update that sets startingBid (currentBid follows it) or by the first
\* accepted bid, stored rounded below a startingBid that is not a whole cent.
C10_DecreasesOnlyBeforeFirstBid ==
    [][\A id \in UsedIds :
          Has(auctions', id) =>
              LET a == Get(auctions, id)
                  b == Get(auctions', id)
              IN  b.currentBid < a.currentBid =>
                    /\ a.bids = <<>>
                    /\ \/ /\ resp'.op = "update"
                          /\ b.bids = <<>>
                          /\ b.currentBid = b.startingBid
                       \/ /\ BidStep /\ resp'.error = ""
                          /\ a.currentBid % Cent # 0
                          /\ a.currentBid - b.currentBid < Cent]_vars

\* An update has moved startingBid under an auction with two bids, whose
\* currentBid stayed, while another auction stands lower
C10_Witness ==
    /\ resp.op = "update"
    /\ \E i \in DOMAIN auctions :
          /\ auctions[i].bids = <<60000, 200000>>
          /\ auctions[i].startingBid = 60000
          /\ auctions[i].currentBid = 200000
          /\ \E j \in DOMAIN auctions : j # i /\ auctions[j].currentBid < 200000

\* C11: an update of an auction whose bids is non-empty leaves its startingBid
\* and its currentBid as they were, raises no error and applies the other fields.
C11_StartingBidIgnoredAfterBids ==
    [][(resp'.op = "update" /\ resp'.error = "") =>
         \A i \in DOMAIN auctions :
             auctions[i].bids # <<>> =>
                 /\ auctions'[i].startingBid = auctions[i].startingBid
                 /\ auctions'[i].currentBid = auctions[i].currentBid]_vars

\* C12: a status poll changes no state, and its three booleans describe one
\* lifecycle state of the auction (active iff started and not ended, at one
\* instant of the handling), even if the clock advances during the handling.
C12_StatusDescribesOneState ==
    [][resp'.op = "status" =>
         /\ auctions' = auctions /\ saved' = saved
         /\ <<DATA', admin', authed', creds'>> = <<DATA, admin, authed, creds>>
         /\ resp'.error = "" =>
              LET a == auctions[Target] IN
              /\ resp'.active <=> (resp'.hasStarted /\ ~resp'.hasEnded)
              /\ \E t \in now..now' :
                    /\ resp'.hasStarted <=> (t >= a.startsAt)
                    /\ resp'.hasEnded <=> (t >= a.endsAt)]_vars

\* C13: when the write of the snapshot fails after a bid was accepted in memory,
\* the auction keeps the new currentBid and the appended bid, the snapshot is not
\* written, and every later bid is judged against the currentBid in memory.
C13_FailedSaveKeepsBid ==
    [][BidStep =>
         /\ resp'.error = WriteFailed =>
              /\ saved' = saved
              /\ auctions'[Target].currentBid = ToFixed2(resp'.amount[1])
              /\ auctions'[Target].bids =
                    Append(auctions[Target].bids, ToFixed2(resp'.amount[1]))
         /\ (/\ Target # 0
             /\ InWindow(auctions[Target], now) /\ InWindow(auctions[Target], now')
             /\ resp'.amount # NaN
             /\ resp'.amount[1] <= auctions[Target].currentBid) =>
              /\ resp'.error = "Bid must be greater than current bid."
              /\ auctions' = auctions]_vars

\* A bid of 60 is rejected as too low against the 60 kept in memory, while the
\* snapshot on disk still holds the auction without any bid
C13_Witness ==
    /\ resp.op = "bid" /\ resp.amount = <<60000>>
    /\ resp.error = "Bid must be greater than current bid."
    /\ Len(auctions) = 1 /\ Len(saved.auctions) = 1
    /\ auctions[1].bids = <<60000>> /\ auctions[1].currentBid = 60000
    /\ saved.auctions[1].bids = <<>> /\ saved.auctions[1].currentBid = 50000

\* C14: every auction has minIncrement > 0, whatever create and update were sent.
C14_MinIncrementPositive ==
    \A i \in DOMAIN auctions : auctions[i].minIncrement > 0

\* C15: once the store is there, a bid is answered by the first that applies:
\* unknown slug, not found; now before startsAt, not started; now at or after
\* endsAt, ended; amount not finite or not above currentBid, too low; only then
\* does the answer depend on the increment bounds.
C15_RejectionPrecedence ==
    [][(BidStep /\ DATA # Null) =>
         IF Target = 0 THEN resp'.error = "Auction not found"
         ELSE LET a == auctions[Target] IN
              IF now < a.startsAt THEN resp'.error = "Auction has not started yet."
              ELSE IF now' >= a.endsAt THEN resp'.error = "Auction has ended."
              ELSE IF \/ resp'.amount = NaN
                      \/ resp'.amount[1] = Infinity
                      \/ resp'.amount[1] <= a.currentBid
                   THEN resp'.error = "Bid must be greater than current bid."
              ELSE resp'.error \in {"", WriteFailed,
                                    "Bid increment must be between min and max."}]_vars

\* C16: across every step the bids of an auction that stays in the store are the
\* bids it had, or those with one entry added at the end by an accepted bid.
C16_BidsAppendOnly ==
    [][\A id \in UsedIds :
          Has(auctions', id) =>
              LET a == Get(auctions, id)
                  b == Get(auctions', id)
              IN  \/ b.bids = a.bids
                  \/ /\ BidStep /\ resp'.error \in {"", WriteFailed}
                     /\ a.slug = resp'.slug
                     /\ Len(b.bids) = Len(a.bids) + 1
                     /\ SubSeq(b.bids, 1, Len(a.bids)) = a.bids]_vars

\* The auction that was created second holds two bids after an update of its
\* startingBid and the deletion of the first auction
C16_Witness ==
    /\ resp.op = "delete"
    /\ Len(auctions) = 1
    /\ auctions[1].id = 2
    /\ auctions[1].bids = <<60000, 200000>>
    /\ auctions[1].startingBid = 60000

\* C17 as stated: while the clock stands still no step changes the lifecycle
\* state of an auction that stays in the store, and across every step the state
\* moves forward only (Pending, Active, Ended).
C17_StateFollowsClockOnly ==
    [][\A id \in UsedIds :
          Has(auctions', id) =>
              LET before == Lifecycle(Get(auctions, id), now)
                  after == Lifecycle(Get(auctions', id), now')
              IN  /\ now' = now => after = before
                  /\ Rank(after) >= Rank(before)]_vars

\* C17 amended: the window of an auction is changed by an admin update only, and
\* an update changes one window; the state of every auction whose window stays
\* stays as it is while the clock stands still and moves forward only.
C17_StateFollowsClockAndUpdate ==
    [][LET Moved == {id \in UsedIds :
                       /\ Has(auctions', id)
                       /\ <<Get(auctions', id).startsAt, Get(auctions', id).endsAt>>
                            # <<Get(auctions, id).startsAt, Get(auctions, id).endsAt>>}
       IN  /\ Moved # {} => resp'.op = "update" /\ resp'.error = ""
           /\ Cardinality(Moved) <= 1
           /\ \A id \in UsedIds \ Moved :
                 Has(auctions', id) =>
                     LET before == Lifecycle(Get(auctions, id), now)
                         after == Lifecycle(Get(auctions', id), now')
                     IN  /\ now' = now => after = before
                         /\ Rank(after) >= Rank(before)]_vars

\* An auction that took a bid, hence was Active, is Pending after an update,
\* next to an auction that is Ended
C17_Witness ==
    /\ resp.op = "update"
    /\ \E i, j \in DOMAIN auctions :
          /\ auctions[i].bids # <<>>
          /\ Lifecycle(auctions[i], now) = "Pending"
          /\ Lifecycle(auctions[j], now) = "Ended"

\* C20: every auction with maxIncrement set has minIncrement <= maxIncrement, so
\* that some increment is within the bounds.
C20_MinIncrementNotAboveMax ==
    \A i \in DOMAIN auctions :
        auctions[i].maxIncrement # NoMax =>
            auctions[i].minIncrement <= auctions[i].maxIncrement

\* C18: a handler that runs finds DATA assigned: no request is handled between
\* the moment the server listens and the end of the startup.
C18_HandlersFindData ==
    [][(resp'.op \notin {"none", "startup"} /\ resp'.error # "redirect") =>
         DATA # Null]_vars

\* The pairs of username and hash that the startup and the rotations requested
\* make complete
CompletePairs ==
    {<<InitialAdmin.username, Hash(DefaultPassword)>>}
    \cup {<<r[1], Hash(r[2])>> : r \in {q \in Rotations : q[1] # "" /\ q[2] # ""}}

\* C19: once the store is there, the credentials that a handler reads in DATA
\* and the credentials of the snapshot on disk are a complete pair, the old or
\* the new one, never the new username with the old hash.
C19_RotationAtomic ==
    DATA # Null =>
        /\ <<admin.username, admin.passwordHash>> \in CompletePairs
        /\ <<saved.admin.username, saved.admin.passwordHash>> \in CompletePairs

====
